---- MODULE Spec2Model ----
(***************************************************************************)
(* Model of analyze_video_emotions (src/app.py): one analysis run over a   *)
(* video source.  The video is a finite sequence of frames, the detector   *)
(* is a deterministic per-frame outcome (raise, no faces, or a sequence of *)
(* face records mapping labels to scores), and an unexpected exception in *)
(* the scan loop may be raised by the environment at a fixed read position.*)
(***************************************************************************)
EXTENDS Integers, Sequences, FiniteSets, TLC

\* Bounds of the model
MaxFrames == 5
MaxFpsTenths == 600

\* Emotion labels in the detector's enumeration order
Labels == <<"happy", "sad">>

\* Frame rates reported by the container, in tenths of a frame per second
FpsChoices == {0, 10}

\* no unexpected exception: a position the loop never reaches
NoFatal == MaxFrames + 1

\* Detector outcomes for one frame
ORaise == [kind |-> "raise", faces |-> <<>>]
ONone  == [kind |-> "ok", faces |-> <<>>]
OHappy == [kind |-> "ok", faces |-> << <<1, 0>> >>]
OMulti == [kind |-> "ok", faces |-> << <<0, 1>>, <<1, 0>> >>]
OTie   == [kind |-> "ok", faces |-> << <<1, 1>> >>]
Outcomes == {ORaise, ONone, OHappy, OMulti, OTie}

\* int(x) in Python truncates toward zero; x is given in tenths
Trunc(x10) == IF x10 >= 0 THEN x10 \div 10 ELSE -((-x10) \div 10)

\* frame_rate = int(cap.get(FPS)); fallback 30; frame_interval = max(1, frame_rate*2)
SampleInterval(fps10) ==
    LET fr == IF Trunc(fps10) <= 0 THEN 30 ELSE Trunc(fps10)
    IN  IF fr * 2 >= 1 THEN fr * 2 ELSE 1

\* max(d, key=d.get): first maximal entry in enumeration order
RECURSIVE ArgMaxFrom(_, _, _)
ArgMaxFrom(face, i, best) ==
    IF i > Len(face) THEN best
    ELSE IF face[i] > face[best] THEN ArgMaxFrom(face, i + 1, i)
         ELSE ArgMaxFrom(face, i + 1, best)

\* Variant: ties resolved to the last maximal entry
TopEmotionLast(face) ==
    Labels[CHOOSE i \in 1..Len(face) :
              /\ \A j \in 1..Len(face) : face[j] <= face[i]
              /\ \A j \in (i + 1)..Len(face) : face[j] < face[i]]

TopEmotion(face) == Labels[ArgMaxFrom(face, 2, 1)]

\* Variant: one entry per detected face instead of the first face only
RecordAllFaces(emos, res) ==
    emos \o [k \in 1..Len(res.faces) |-> TopEmotion(res.faces[k])]

\* Variant: an empty detection recorded as a default label
RecordDefault(emos, res) ==
    IF Len(res.faces) > 0 THEN Append(emos, TopEmotion(res.faces[1]))
    ELSE IF res.kind = "ok" THEN Append(emos, "neutral") ELSE emos

\* if results and len(results) > 0: emotions.append(top of results[0])
Record(emos, res) ==
    IF Len(res.faces) > 0 THEN Append(emos, TopEmotion(res.faces[1])) ELSE emos

Range(s) == {s[k] : k \in DOMAIN s}

\* pd.Series(emotions).value_counts().to_dict()
ValueCounts(s) == [l \in Range(s) |-> Cardinality({k \in DOMAIN s : s[k] = l})]

EmptyTally == [l \in {} |-> 0]

\* ... if emotions else {}
Result(emos) == IF emos # <<>> THEN ValueCounts(emos) ELSE EmptyTally

\* Variant: an inner except clause that does not catch the detector's error
HandledNone(res) == FALSE

\* except Exception as e: catches every exception raised by the detector
Handled(res) == TRUE

VARIABLES
    nFrames,    \* number of frames in the video
    outcome,    \* detector outcome for each frame index
    fps10,      \* reported frame rate (tenths)
    openOk,     \* whether cv2.VideoCapture opens the source
    fatalAt,    \* read position where an unexpected exception is raised
    pc,         \* "opening", "scanning", "done"
    capOpen,    \* the capture handle is held and not released
    interval,   \* frame_interval
    frameCount, \* frame_count
    readPos,    \* position of the next frame cap.read() returns
    emotions,   \* emotions list
    classified, \* read positions of frames passed to detect_emotions
    ret,        \* returned dictionary
    exit        \* exit path taken: "none", "normal", "noopen", "fatal"

vars == <<nFrames, outcome, fps10, openOk, fatalAt, pc, capOpen, interval,
          frameCount, readPos, emotions, classified, ret, exit>>

inputs == <<nFrames, outcome, fps10, openOk, fatalAt>>

Init ==
    /\ nFrames \in 0..MaxFrames
    /\ outcome \in [0..(nFrames - 1) -> Outcomes]
    /\ fps10 \in FpsChoices
    /\ openOk \in BOOLEAN
    /\ fatalAt \in {NoFatal} \cup 0..nFrames
    /\ pc = "opening"
    /\ capOpen = FALSE
    /\ interval = 0
    /\ frameCount = 0
    /\ readPos = 0
    /\ emotions = <<>>
    /\ classified = <<>>
    /\ ret = EmptyTally
    /\ exit = "none"

\* cap = cv2.VideoCapture(...); if not cap.isOpened(): return {}
\* otherwise compute frame_interval and enter the loop
Open ==
    /\ pc = "opening"
    /\ IF ~openOk
       THEN /\ pc' = "done"
            /\ exit' = "noopen"
            /\ ret' = EmptyTally
            /\ UNCHANGED <<capOpen, interval>>
       ELSE /\ pc' = "scanning"
            /\ capOpen' = TRUE
            /\ interval' = SampleInterval(fps10)
            /\ UNCHANGED <<exit, ret>>
    /\ UNCHANGED <<inputs, frameCount, readPos, emotions, classified>>

\* One iteration of the while loop
Step ==
    /\ pc = "scanning"
    /\ readPos # fatalAt
    /\ IF readPos >= nFrames
       THEN \* ret is False: break; cap.release(); return value_counts or {}
            /\ pc' = "done"
            /\ capOpen' = FALSE
            /\ exit' = "normal"
            /\ ret' = Result(emotions)
            /\ UNCHANGED <<frameCount, readPos, emotions, classified>>
       ELSE /\ readPos' = readPos + 1
            /\ IF frameCount % interval = 0
               THEN LET res == outcome[readPos] IN
                    /\ classified' = Append(classified, readPos)
                    /\ IF res.kind = "raise"
                       THEN IF Handled(res)
                            THEN \* warning; continue (frame_count not incremented)
                                 /\ UNCHANGED <<frameCount, emotions, pc, capOpen, exit, ret>>
                            ELSE \* propagates to the outer except: return {}
                                 /\ pc' = "done"
                                 /\ exit' = "fatal"
                                 /\ ret' = EmptyTally
                                 /\ UNCHANGED <<frameCount, emotions, capOpen>>
                       ELSE /\ emotions' = Record(emotions, res)
                            /\ frameCount' = frameCount + 1
                            /\ UNCHANGED <<pc, capOpen, exit, ret>>
               ELSE /\ frameCount' = frameCount + 1
                    /\ UNCHANGED <<classified, emotions, pc, capOpen, exit, ret>>
    /\ UNCHANGED <<inputs, interval>>

\* An unexpected exception inside the try block during the scan loop:
\* the outer except returns {} without calling cap.release()
Fatal ==
    /\ pc = "scanning"
    /\ readPos = fatalAt
    /\ pc' = "done"
    /\ exit' = "fatal"
    /\ ret' = EmptyTally
    /\ UNCHANGED <<inputs, capOpen, interval, frameCount, readPos, emotions, classified>>

Next == Open \/ Step \/ Fatal

Spec == Init /\ [][Next]_vars

\* Run with the scheduling of the single-threaded loop: each enabled step is taken
FairSpec == Spec /\ WF_vars(Open) /\ WF_vars(Step) /\ WF_vars(Fatal)

\* Reported frame rates (tenths) from -MaxFpsTenths to MaxFpsTenths, on a
\* source that opens: the run computes frame_interval
InitRates ==
    /\ nFrames = 0
    /\ outcome = [i \in {} |-> ONone]
    /\ fps10 \in -MaxFpsTenths..MaxFpsTenths
    /\ openOk = TRUE
    /\ fatalAt = NoFatal
    /\ pc = "opening"
    /\ capOpen = FALSE
    /\ interval = 0
    /\ frameCount = 0
    /\ readPos = 0
    /\ emotions = <<>>
    /\ classified = <<>>
    /\ ret = EmptyTally
    /\ exit = "none"

RatesSpec == InitRates /\ [][Open]_vars

(***************************************************************************)
(* Auxiliary operators for the properties                                  *)
(***************************************************************************)

\* Frame indices a sampler restricted to multiples of frame_interval passes on
IdealSampled == {i \in 0..(nFrames - 1) : i % interval = 0}

HasFaces(i) == outcome[i].kind = "ok" /\ Len(outcome[i].faces) > 0

RECURSIVE TallyOver(_, _)
TallyOver(S, emos) ==
    IF S = {} THEN emos
    ELSE LET i == CHOOSE j \in S : \A k \in S : j <= k
         IN  TallyOver(S \ {i},
                       IF HasFaces(i) THEN Append(emos, TopEmotion(outcome[i].faces[1]))
                       ELSE emos)

SumTally(t) ==
    LET RECURSIVE SumOver(_)
        SumOver(S) == IF S = {} THEN 0
                      ELSE LET l == CHOOSE x \in S : TRUE IN t[l] + SumOver(S \ {l})
    IN SumOver(DOMAIN t)

FirstMaxIdx(face) ==
    CHOOSE i \in 1..Len(face) :
        /\ \A j \in 1..Len(face) : face[j] <= face[i]
        /\ \A j \in 1..(i - 1) : face[j] < face[i]

Completed == pc = "done" /\ exit = "normal"

(* C1: the frames passed to the classifier are exactly the read positions   *)
(* that are multiples of SampleInterval, in ascending order.                *)
C1_Sampling ==
    /\ \A k \in 1..Len(classified) : classified[k] % interval = 0
    /\ \A k \in 1..(Len(classified) - 1) : classified[k] < classified[k + 1]
    /\ Completed => Range(classified) = IdealSampled

(* C2: a classifier failure on exactly one sampled frame leaves the tally   *)
(* equal to the tally of the run in which that sample contributed nothing.  *)
C2_SkipOneFailure ==
    (Completed /\ Cardinality({i \in IdealSampled : outcome[i].kind = "raise"}) = 1)
        => ret = Result(TallyOver(IdealSampled, <<>>))

(* C3: SampleInterval is 60 when the reported rate r <= 0 and max(1, r*2)  *)
(* when r > 0 (compared in tenths of a frame).                             *)
C3_IntervalOriginal ==
    pc = "scanning" =>
        IF fps10 <= 0 THEN interval = 60
        ELSE 10 * interval = IF 2 * fps10 >= 10 THEN 2 * fps10 ELSE 10

(* C4: in a completed run the sum of the tally's counts equals the number  *)
(* of sampled frames for which the classifier returned at least one face.  *)
C4_TallySum ==
    Completed =>
        SumTally(ret) = Cardinality({k \in 1..Len(classified) : HasFaces(classified[k])})

C4_Witness ==
    /\ Completed
    /\ SumTally(ret) >= 2
    /\ \E k \in 1..Len(classified) : outcome[classified[k]] = OMulti
    /\ \E m \in 1..Len(classified) : outcome[classified[m]] = ONone

(* C5: each classified frame with a non-empty result adds exactly one     *)
(* entry, the first maximal label of the first face; other frames add     *)
(* nothing.                                                                *)
FacedFrames == SelectSeq(classified, HasFaces)
C5_FirstFaceTop ==
    /\ Len(emotions) = Len(FacedFrames)
    /\ \A k \in 1..Len(emotions) :
          emotions[k] = Labels[FirstMaxIdx(outcome[FacedFrames[k]].faces[1])]
    /\ Completed => ret = Result(emotions)

C5_Witness ==
    /\ Completed
    /\ \E k \in 1..Len(classified) : outcome[classified[k]] = OTie
    /\ \E m \in 1..Len(classified) : outcome[classified[m]] = OMulti

(* C6: a run that fails to open its source or hits a fatal condition in   *)
(* the scan loop returns a value distinct from the empty tally.            *)
C6_FailureDistinct ==
    (pc = "done" /\ exit \in {"noopen", "fatal"}) => ret # EmptyTally

(* C7: a readable video whose sampled frames all yield no faces ends in   *)
(* Completed with the empty tally, never in a failure state.               *)
C7_NoFacesCompletes ==
    (pc = "done" /\ openOk /\ fatalAt = NoFatal
                /\ \A k \in 1..Len(classified) : outcome[classified[k]] = ONone)
        => exit = "normal" /\ ret = EmptyTally

C7_Witness ==
    Completed /\ Len(classified) >= 2
              /\ \A k \in 1..Len(classified) : outcome[classified[k]] = ONone

(* C8: on every exit path the capture handle is released before return.   *)
C8_HandleReleased == pc = "done" => ~capOpen

(* C9: a run that opened its source and meets no unexpected exception     *)
(* eventually completes normally, whatever the classifier's outcomes.      *)
C9_Terminates == (pc = "scanning" /\ fatalAt = NoFatal) ~> Completed

C9_Witness ==
    Completed /\ Len(classified) >= 2
              /\ \A k \in 1..Len(classified) : outcome[classified[k]] = ORaise

====
